---- MODULE Spec2Model ----
(***************************************************************************)
(* dApp-Lucky: the ordered favorites store (wallet-scoped client store and *)
(* the server's MemStorage behind the REST routes) and the deep-research   *)
(* strategy chain.                                                         *)
(*                                                                         *)
(* JavaScript arrays are 0-based; sequences here are 1-based, so array     *)
(* index k of the source is index k+1 of the model.                        *)
(***************************************************************************)
EXTENDS Integers, Sequences, FiniteSets, TLC

\* dApp identifiers the catalogue can offer, and the browser tabs that can be
\* open on the same wallet account.
DAppIds == {"a", "b", "c"}
Tabs == {"tab1", "tab2"}

\* Outcome of one call into the wallet provider:
\*   "remote": eth_setData / eth_getData answered,
\*   "local" : the RPC threw and the localStorage fallback was used,
\*   "fail"  : the fallback threw too (no provider, no account, storage error).
Modes == {"remote", "local", "fail"}

VARIABLES
    catalogue,    \* environment: the dApp ids shown to the user in this run
    modes,        \* environment: the outcomes the wallet provider produces in this run
    remoteData,   \* value kept by the wallet under FAVORITES_KEY-account
    localData,    \* localStorage item FAVORITES_KEY-account
    favorites,    \* per tab: the in-memory list the components hold
    pc,           \* per tab: position inside an asynchronous handler
    pending,      \* per tab: locals of the handler that is in flight
    acked         \* history: adds reported successful and not removed since,
                  \* each with the length of the list it was computed from

walletVars == <<catalogue, modes, remoteData, localData, favorites, pc, pending, acked>>

-----------------------------------------------------------------------------
\* Pure helpers of metamask-service (src/unnamed/part_008)

NoData == [present |-> FALSE, items |-> <<>>]
Stored(items) == [present |-> TRUE, items |-> items]

IdsOf(favs) == {favs[i].id : i \in DOMAIN favs}
PositionsOf(favs) == {favs[i].position : i \in DOMAIN favs}

\* Math.max(...currentFavorites.map(fav => fav.position))
MaxPosition(favs) == CHOOSE m \in PositionsOf(favs) : \A p \in PositionsOf(favs) : p <= m

\* currentFavorites.some(fav => fav.dapp.id === dapp.id)
Exists(dapp, currentFavorites) == dapp \in IdsOf(currentFavorites)

\* the position an add gives when it takes the maximum as it is
NewPositionWithoutIncrement(currentFavorites) ==
    IF Len(currentFavorites) > 0 THEN MaxPosition(currentFavorites) ELSE 1

\* addFavorite: newPosition
NewPosition(currentFavorites) ==
    IF Len(currentFavorites) > 0 THEN MaxPosition(currentFavorites) + 1 ELSE 1

\* the list addFavorite hands to saveFavoritesToMetaMask
AddedFavorites(dapp, currentFavorites) ==
    Append(currentFavorites, [id |-> dapp, position |-> NewPosition(currentFavorites)])

\* currentFavorites.filter(fav => fav.dapp.id !== dappId)
RECURSIVE FilterOut(_, _)
FilterOut(dappId, favs) ==
    IF favs = <<>> THEN <<>>
    ELSE IF Head(favs).id = dappId THEN FilterOut(dappId, Tail(favs))
         ELSE <<Head(favs)>> \o FilterOut(dappId, Tail(favs))

\* newFavorites.map((fav, index) => ({...fav, position: index + 1}))
Renumbered(favs) == [i \in DOMAIN favs |-> [id |-> favs[i].id, position |-> i]]

\* the list removeFavorite hands to saveFavoritesToMetaMask
RemovedFavorites(dappId, currentFavorites) == Renumbered(FilterOut(dappId, currentFavorites))

\* newFavorites.splice(dragIndex, 1); newFavorites.splice(hoverIndex, 0, draggedItem)
RemoveAt(s, i) == SubSeq(s, 1, i - 1) \o SubSeq(s, i + 1, Len(s))
InsertAt(s, i, x) == SubSeq(s, 1, i - 1) \o <<x>> \o SubSeq(s, i, Len(s))
MovedFavorites(favs, dragIndex, hoverIndex) ==
    InsertAt(RemoveAt(favs, dragIndex), hoverIndex, favs[dragIndex])

\* saveFavoritesToMetaMask: which store receives the list, and what it returns
SavedRemote(mode, list) == IF mode = "remote" THEN Stored(list) ELSE remoteData
SavedLocal(mode, list) == IF mode = "local" THEN Stored(list) ELSE localData
SaveReturns(mode) == mode # "fail"

\* a load with no fallback: a failed remote read gives null
LoadedWithoutFallback(mode) ==
    IF mode = "remote" THEN remoteData ELSE NoData

\* loadFavoritesFromMetaMask: null is modelled as present = FALSE
Loaded(mode) ==
    IF mode = "remote" THEN remoteData
    ELSE IF mode = "local" THEN localData
    ELSE NoData

-----------------------------------------------------------------------------
\* locals of a tab with no handler in flight
Idle == [dapp |-> "a", snapshot |-> <<>>]

\* no favorites stored yet, every tab freshly opened
WalletStart ==
    /\ remoteData = NoData
    /\ localData = NoData
    /\ favorites = [t \in Tabs |-> <<>>]
    /\ pc = [t \in Tabs |-> "idle"]
    /\ pending = [t \in Tabs |-> Idle]
    /\ acked = {}

\* what the wallet in use holds for the account: this run's provider writes
\* and reads one store only (see WalletInit)
Persisted == IF "remote" \in modes THEN remoteData.items ELSE localData.items

AllIdle == \A t \in Tabs : pc[t] = "idle"
AckedIds == {r.id : r \in acked}
Ack(dapp, basis) == {r \in acked : r.id # dapp} \cup {[id |-> dapp, basis |-> Len(basis)]}
Unack(dappId) == {r \in acked : r.id # dappId}

\* FavoritesPanel.loadFavorites (mount effect, or the ['favorites'] query refetch)
LoadFavoritesOf(t, mode) ==
    /\ pc[t] = "idle"
    /\ favorites' = [favorites EXCEPT ![t] =
                        IF Loaded(mode).present THEN Loaded(mode).items ELSE @]
    /\ UNCHANGED <<catalogue, modes, remoteData, localData, pc, pending, acked>>

LoadFavorites(t) == \E mode \in modes : LoadFavoritesOf(t, mode)

\* RandomDAppCard.handleAddToFavorites: addFavorite on the cached list
CardAddOf(t, dapp, mode) ==
    /\ pc[t] = "idle"
    /\ ~Exists(dapp, favorites[t])
    /\ remoteData' = SavedRemote(mode, AddedFavorites(dapp, favorites[t]))
    /\ localData' = SavedLocal(mode, AddedFavorites(dapp, favorites[t]))
    /\ favorites' = [favorites EXCEPT ![t] =
                        IF SaveReturns(mode) THEN AddedFavorites(dapp, @) ELSE @]
    /\ acked' = IF SaveReturns(mode) THEN Ack(dapp, favorites[t]) ELSE acked
    /\ UNCHANGED <<catalogue, modes, pc, pending>>

CardAdd(t) == \E dapp \in catalogue, mode \in modes : CardAddOf(t, dapp, mode)

\* DiscoveryPanel.handleAddToFavorites, first await: re-read the stored list
PanelAddLoadOf(t, dapp, mode) ==
    /\ pc[t] = "idle"
    /\ pending' = [pending EXCEPT ![t] =
                      [dapp |-> dapp,
                       snapshot |-> IF Loaded(mode).present THEN Loaded(mode).items ELSE <<>>]]
    /\ pc' = [pc EXCEPT ![t] = "adding"]
    /\ UNCHANGED <<catalogue, modes, remoteData, localData, favorites, acked>>

PanelAddLoad(t) == \E dapp \in catalogue, mode \in modes : PanelAddLoadOf(t, dapp, mode)

\* DiscoveryPanel.handleAddToFavorites, second await: addFavorite(dapp, favorites)
PanelAddSaveOf(t, mode) ==
    /\ pc[t] = "adding"
    /\ LET dapp == pending[t].dapp
           cur == pending[t].snapshot
       IN IF Exists(dapp, cur)
          THEN /\ acked' = Ack(dapp, cur)
               /\ UNCHANGED <<remoteData, localData>>
          ELSE /\ remoteData' = SavedRemote(mode, AddedFavorites(dapp, cur))
               /\ localData' = SavedLocal(mode, AddedFavorites(dapp, cur))
               /\ acked' = IF SaveReturns(mode) THEN Ack(dapp, cur) ELSE acked
    /\ pc' = [pc EXCEPT ![t] = "idle"]
    /\ pending' = [pending EXCEPT ![t] = Idle]
    /\ UNCHANGED <<catalogue, modes, favorites>>

PanelAddSave(t) == \E mode \in modes : PanelAddSaveOf(t, mode)

\* FavoritesPanel.moveItem
MoveItemOf(t, dragIndex, hoverIndex, mode) ==
    /\ pc[t] = "idle"
    /\ dragIndex \in DOMAIN favorites[t]
    /\ hoverIndex \in DOMAIN favorites[t]
    /\ dragIndex # hoverIndex
    /\ remoteData' = SavedRemote(mode, MovedFavorites(favorites[t], dragIndex, hoverIndex))
    /\ localData' = SavedLocal(mode, MovedFavorites(favorites[t], dragIndex, hoverIndex))
    /\ favorites' = [favorites EXCEPT ![t] =
                        IF SaveReturns(mode)
                        THEN MovedFavorites(@, dragIndex, hoverIndex) ELSE @]
    /\ UNCHANGED <<catalogue, modes, pc, pending, acked>>

MoveItem(t) ==
    \E dragIndex \in DOMAIN favorites[t], hoverIndex \in DOMAIN favorites[t], mode \in modes :
        MoveItemOf(t, dragIndex, hoverIndex, mode)

\* FavoritesPanel.handleRemoveFavorite, first await: removeFavorite(dapp.id, favorites)
RemoveSaveOf(t, dappId, mode) ==
    /\ pc[t] = "idle"
    /\ Exists(dappId, favorites[t])
    /\ remoteData' = SavedRemote(mode, RemovedFavorites(dappId, favorites[t]))
    /\ localData' = SavedLocal(mode, RemovedFavorites(dappId, favorites[t]))
    /\ acked' = IF SaveReturns(mode) THEN Unack(dappId) ELSE acked
    /\ pc' = [pc EXCEPT ![t] = IF SaveReturns(mode) THEN "reloading" ELSE "idle"]
    /\ UNCHANGED <<catalogue, modes, favorites, pending>>

RemoveSave(t) == \E dappId \in catalogue, mode \in modes : RemoveSaveOf(t, dappId, mode)

\* FavoritesPanel.handleRemoveFavorite, second await: loadFavorites()
RemoveReloadOf(t, mode) ==
    /\ pc[t] = "reloading"
    /\ favorites' = [favorites EXCEPT ![t] =
                        IF Loaded(mode).present THEN Loaded(mode).items ELSE @]
    /\ pc' = [pc EXCEPT ![t] = "idle"]
    /\ UNCHANGED <<catalogue, modes, remoteData, localData, pending, acked>>

RemoveReload(t) == \E mode \in modes : RemoveReloadOf(t, mode)

-----------------------------------------------------------------------------
\* Claims about the wallet-scoped store

\* C1: two adds that were each computed from the empty collection and both
\* reported success end in the persisted collection at positions 1 and 2, and
\* the persisted collection never holds a position twice.
C1_ConcurrentAddsLandApart ==
    /\ Cardinality(PositionsOf(Persisted)) = Len(Persisted)
    /\ (AllIdle /\ acked = {[id |-> "a", basis |-> 0], [id |-> "b", basis |-> 0]})
          => /\ IdsOf(Persisted) = {"a", "b"}
             /\ PositionsOf(Persisted) = {1, 2}

\* C2: when no handler is in flight, every add that was reported successful
\* (and not removed since) is present in the persisted collection: no write
\* computed from a tab's own copy has clobbered another tab's write.
C2_NoMutationIsClobbered == AllIdle => AckedIds \subseteq IdsOf(Persisted)

\* C3: an add of a dApp that is already in the persisted collection leaves the
\* persisted collection as it is (add applied twice = add applied once).
C3_AddIsIdempotent ==
    [][\A t \in Tabs, dapp \in DAppIds, mode \in Modes :
          ((CardAddOf(t, dapp, mode) \/ (PanelAddSaveOf(t, mode) /\ pending[t].dapp = dapp))
              /\ Exists(dapp, Persisted))
          => Persisted' = Persisted]_walletVars

\* C4: after a reorder that was saved, the persisted entries are in the order
\* the caller supplied and entry i of that order has position i.
C4_ReorderRewritesPositions ==
    [][\A t \in Tabs, dragIndex \in 1..Cardinality(DAppIds),
          hoverIndex \in 1..Cardinality(DAppIds), mode \in Modes :
          (MoveItemOf(t, dragIndex, hoverIndex, mode) /\ SaveReturns(mode))
          => /\ Persisted' = MovedFavorites(favorites[t], dragIndex, hoverIndex)
             /\ \A i \in DOMAIN Persisted' : Persisted'[i].position = i]_walletVars


-----------------------------------------------------------------------------
(***************************************************************************)
(* The server: MemStorage (src/server/storage.ts) behind the favorites     *)
(* routes.  IStorage is a Promise interface: a handler reads or writes the *)
(* store when it calls a storage method and is suspended at the await that *)
(* follows, so another request's handler may run between two calls.        *)
(***************************************************************************)
Wallets == {"w1"}
NoWallet == "none"
Slots == {"r1", "r2"}

\* caps on the two id counters; a reorder payload names at most MaxFavoriteId rows
MaxFavoriteId == 2
MaxUsers == 2

\* "Default user ID for non-wallet users"
DefaultUserId == 1

VARIABLES
    users,              \* MemStorage.users: user id -> wallet address (ids 1..Len)
    favs,               \* MemStorage.favorites: the stored Favorite rows
    favoriteIdCounter,  \* MemStorage.favoriteIdCounter
    reqs                \* per connection slot: the handler in flight and its locals

serverVars == <<users, favs, favoriteIdCounter, reqs>>

\* a slot with no handler in flight; status is the last response sent on it
IdleSlot(status) ==
    [pc |-> "idle", wallet |-> NoWallet, dappId |-> "a", list |-> <<>>,
     userId |-> 0, favId |-> 0, lastPosition |-> 0, status |-> status]

\* MemStorage.getUserByWalletAddress: the first user with that address, 0 if none
UserByWallet(walletAddress) ==
    IF \E i \in DOMAIN users : users[i] = walletAddress
    THEN CHOOSE i \in DOMAIN users :
            /\ users[i] = walletAddress
            /\ \A j \in DOMAIN users : users[j] = walletAddress => i <= j
    ELSE 0

FavsOf(userId) == {f \in favs : f.userId = userId}

\* MemStorage.getFavorites: the user's rows, sorted by position (the sort is
\* stable, so rows with equal positions stay in insertion = id order)
RECURSIVE SortedRows(_)
SortedRows(rows) ==
    IF rows = {} THEN <<>>
    ELSE LET first == CHOOSE f \in rows :
                         \A g \in rows : \/ f.position < g.position
                                           \/ (f.position = g.position /\ f.id <= g.id)
         IN <<first>> \o SortedRows(rows \ {first})

GetFavorites(userId) == SortedRows(FavsOf(userId))

\* MemStorage.getFavoriteByDappId: the id of the first matching row, 0 if none
FavoriteByDappId(userId, dappId) ==
    LET hits == {f \in FavsOf(userId) : f.dappId = dappId}
    IN IF hits = {} THEN 0
       ELSE (CHOOSE f \in hits : \A g \in hits : f.id <= g.id).id

\* lastPosition of POST /api/favorites
LastPosition(userId) ==
    IF FavsOf(userId) # {}
    THEN CHOOSE m \in {f.position : f \in FavsOf(userId)} :
            \A f \in FavsOf(userId) : f.position <= m
    ELSE 0

\* MemStorage.updateFavoritePositions: rows are updated in payload order, an
\* id with no row is skipped
RECURSIVE UpdatedPositions(_, _)
UpdatedPositions(rows, list) ==
    IF list = <<>> THEN rows
    ELSE UpdatedPositions(
            {IF f.id = Head(list).id THEN [f EXCEPT !.position = Head(list).position] ELSE f
                : f \in rows},
            Tail(list))

\* MemStorage.deleteFavorite
DeletedFavorite(rows, id) == {f \in rows : f.id # id}

\* the payload handleDragEnd builds from an ordered list of favorite ids
ReorderPayload(ids) == [i \in DOMAIN ids |-> [id |-> ids[i], position |-> i]]

ReorderInputs ==
    UNION {[1..n -> 1..MaxFavoriteId] : n \in 1..MaxFavoriteId}

ServerStart ==
    /\ users = <<>>
    /\ favs = {}
    /\ favoriteIdCounter = 1
    /\ reqs = [r \in Slots |-> IdleSlot("none")]

Reply(r, status) == reqs' = [reqs EXCEPT ![r] = IdleSlot(status)]


\* POST /api/favorites, up to its first storage call
PostFavoriteStart(r, walletAddress, dappId) ==
    /\ reqs[r].pc = "idle"
    /\ favoriteIdCounter <= MaxFavoriteId
    /\ IF walletAddress # NoWallet
       THEN \* getOrCreateUserByWallet: getUserByWalletAddress
            reqs' = [reqs EXCEPT ![r] =
                        [IdleSlot("none") EXCEPT !.pc = "addUser", !.wallet = walletAddress,
                                  !.dappId = dappId, !.userId = UserByWallet(walletAddress)]]
       ELSE \* userId = 1; getFavoriteByDappId
            reqs' = [reqs EXCEPT ![r] =
                        [IdleSlot("none") EXCEPT !.pc = "addCheck", !.dappId = dappId,
                                  !.userId = DefaultUserId,
                                  !.favId = FavoriteByDappId(DefaultUserId, dappId)]]
    /\ UNCHANGED <<users, favs, favoriteIdCounter>>

\* getOrCreateUserByWallet after its await (createUser when no user was found),
\* then getFavoriteByDappId
PostFavoriteUser(r) ==
    /\ reqs[r].pc = "addUser"
    /\ reqs[r].userId = 0 => Len(users) < MaxUsers
    /\ LET userId == IF reqs[r].userId = 0 THEN Len(users) + 1 ELSE reqs[r].userId
       IN /\ users' = IF reqs[r].userId = 0 THEN Append(users, reqs[r].wallet) ELSE users
          /\ reqs' = [reqs EXCEPT ![r] =
                         [@ EXCEPT !.pc = "addCheck", !.userId = userId,
                                   !.favId = FavoriteByDappId(userId, reqs[r].dappId)]]
    /\ UNCHANGED <<favs, favoriteIdCounter>>

\* 409 when the dApp is already a favorite, else getFavorites and lastPosition
PostFavoriteCheck(r) ==
    /\ reqs[r].pc = "addCheck"
    /\ IF reqs[r].favId # 0
       THEN Reply(r, "409")
       ELSE reqs' = [reqs EXCEPT ![r] =
                        [@ EXCEPT !.pc = "addCreate",
                                  !.lastPosition = LastPosition(reqs[r].userId)]]
    /\ UNCHANGED <<users, favs, favoriteIdCounter>>

\* createFavorite with position lastPosition + 1
PostFavoriteCreate(r) ==
    /\ reqs[r].pc = "addCreate"
    /\ favoriteIdCounter <= MaxFavoriteId
    /\ favs' = favs \cup {[id |-> favoriteIdCounter, userId |-> reqs[r].userId,
                           dappId |-> reqs[r].dappId,
                           position |-> reqs[r].lastPosition + 1]}
    /\ favoriteIdCounter' = favoriteIdCounter + 1
    /\ Reply(r, "201")
    /\ UNCHANGED users

\* DELETE /api/favorites/:id
DeleteFavoriteById(r, id) ==
    /\ reqs[r].pc = "idle"
    /\ favs' = DeletedFavorite(favs, id)
    /\ Reply(r, IF \E f \in favs : f.id = id THEN "204" ELSE "404")
    /\ UNCHANGED <<users, favoriteIdCounter>>

\* DELETE /api/wallet/:walletAddress/favorites/:dappId, up to getUserByWalletAddress
DeleteWalletFavoriteStart(r, walletAddress, dappId) ==
    /\ reqs[r].pc = "idle"
    /\ reqs' = [reqs EXCEPT ![r] =
                   [IdleSlot("none") EXCEPT !.pc = "delUser", !.wallet = walletAddress, !.dappId = dappId,
                             !.userId = UserByWallet(walletAddress)]]
    /\ UNCHANGED <<users, favs, favoriteIdCounter>>

\* 404 when there is no user, else getFavoriteByDappId
DeleteWalletFavoriteUser(r) ==
    /\ reqs[r].pc = "delUser"
    /\ IF reqs[r].userId = 0
       THEN Reply(r, "404")
       ELSE reqs' = [reqs EXCEPT ![r] =
                        [@ EXCEPT !.pc = "delFavorite",
                                  !.favId = FavoriteByDappId(reqs[r].userId, reqs[r].dappId)]]
    /\ UNCHANGED <<users, favs, favoriteIdCounter>>

\* 404 when there is no such favorite, else deleteFavorite(favorite.id)
DeleteWalletFavoriteDelete(r) ==
    /\ reqs[r].pc = "delFavorite"
    /\ IF reqs[r].favId = 0
       THEN /\ Reply(r, "404")
            /\ UNCHANGED favs
       ELSE /\ favs' = DeletedFavorite(favs, reqs[r].favId)
            /\ Reply(r, IF \E f \in favs : f.id = reqs[r].favId THEN "204" ELSE "500")
    /\ UNCHANGED <<users, favoriteIdCounter>>

\* PUT /api/favorites/reorder, up to its first storage call
ReorderStart(r, walletAddress, ids) ==
    /\ reqs[r].pc = "idle"
    /\ IF walletAddress # NoWallet
       THEN \* getUserByWalletAddress
            /\ reqs' = [reqs EXCEPT ![r] =
                           [IdleSlot("none") EXCEPT !.pc = "reorderUser", !.wallet = walletAddress,
                                     !.list = ReorderPayload(ids),
                                     !.userId = UserByWallet(walletAddress)]]
            /\ UNCHANGED favs
       ELSE \* updateFavoritePositions
            /\ favs' = UpdatedPositions(favs, ReorderPayload(ids))
            /\ Reply(r, "200")
    /\ UNCHANGED <<users, favoriteIdCounter>>

\* no user for the wallet: updateFavoritePositions; else getFavorites and the
\* ownership test
ReorderUser(r) ==
    /\ reqs[r].pc = "reorderUser"
    /\ IF reqs[r].userId = 0
       THEN /\ favs' = UpdatedPositions(favs, reqs[r].list)
            /\ Reply(r, "200")
       ELSE /\ reqs' = [reqs EXCEPT ![r] =
                           [@ EXCEPT !.pc = IF \A i \in DOMAIN reqs[r].list :
                                                  \E f \in FavsOf(reqs[r].userId) :
                                                      f.id = reqs[r].list[i].id
                                               THEN "reorderUpdate" ELSE "reorderDenied"]]
            /\ UNCHANGED favs
    /\ UNCHANGED <<users, favoriteIdCounter>>

\* 403 "Some favorites don't belong to this user"
ReorderDenied(r) ==
    /\ reqs[r].pc = "reorderDenied"
    /\ Reply(r, "403")
    /\ UNCHANGED <<users, favs, favoriteIdCounter>>

\* updateFavoritePositions after the ownership test passed
ReorderUpdate(r) ==
    /\ reqs[r].pc = "reorderUpdate"
    /\ favs' = UpdatedPositions(favs, reqs[r].list)
    /\ Reply(r, "200")
    /\ UNCHANGED <<users, favoriteIdCounter>>

------------------------------------------------------------------------------
\* The research chain: performResearch and the strategies it falls back through

Builds == {"current", "legacy"}
Paths == {"client", "server"}

\* "Maximum iterations to prevent infinite loops"
maxIterations == 10

\* a provider call that has been issued is answered, or never is
Issued == {"pending", "hung"}

VARIABLES
    build,       \* environment: the client's chain with the agent, or the older one without
    path,        \* entry path of the request in flight: apiSettings given, or the server API
    rpc,         \* the strategy whose provider call is awaited; "idle" and "done" otherwise
    call,        \* state of that provider call
    step,        \* the sub-call a multi-call strategy is at
    iterations,  \* performAgentResearch's loop counter
    attempted,   \* the strategies begun for this request, each with how its provider calls ended
    result       \* what performResearch gave its caller: a value or a thrown error

researchVars == <<build, path, rpc, call, step, iterations, attempted, result>>

NoResult == [kind |-> "none", text |-> "none"]
Value(text) == [kind |-> "value", text |-> text]
Thrown(text) == [kind |-> "thrown", text |-> text]

ResearchStart ==
    /\ rpc = "idle"
    /\ call = "none"
    /\ step = "none"
    /\ iterations = 0
    /\ attempted = <<>>
    /\ result = NoResult

\* the log with the outcome of the running strategy filled in
Outcome(o) == [attempted EXCEPT ![Len(attempted)].outcome = o]

\* what each catch block falls back to
AgentFallback == "StructuredSchema"
StructuredFallback == "SimpleText"
SimpleFallback == "DirectApi"
ServerFallback == "ServerOpenAI"

FirstStep(strategy) ==
    IF strategy \in {"StructuredSchema", "ServerLangChain"} THEN "1" ELSE "none"

\* a strategy function is entered and runs up to its first provider call
Begin(strategy, log) ==
    /\ rpc' = strategy
    /\ call' \in Issued
    /\ step' = FirstStep(strategy)
    /\ iterations' = IF strategy = "Agentic" THEN 1 ELSE 0
    /\ attempted' = Append(log, [strategy |-> strategy, outcome |-> "running"])
    /\ result' = NoResult

\* performResearch settles
Finish(o, res) ==
    /\ rpc' = "done"
    /\ call' = "none"
    /\ step' = "none"
    /\ iterations' = 0
    /\ attempted' = Outcome(o)
    /\ result' = res

\* the running strategy issues its next provider call
NextCall(nextStep) ==
    /\ call' \in Issued
    /\ step' = nextStep
    /\ UNCHANGED <<rpc, attempted, result>>

\* performResearch(request, apiSettings)
StartResearch(p) ==
    /\ rpc \in {"idle", "done"}
    /\ path' = p
    /\ Begin(IF p = "server" THEN "ServerLangChain"
             ELSE IF build = "current" THEN "Agentic" ELSE "StructuredSchema", <<>>)
    /\ UNCHANGED build

\* what agent.invoke can give: a final answer (possibly an empty one), a tool
\* call whose tool runs, a tool call whose tool throws or is not found, an error
AgentReplies == {"final", "empty", "tool", "toolFailed", "error"}

\* the loop body with no limit on the iterations
ContinueLoopUnbounded ==
    /\ iterations' = iterations + 1
    /\ NextCall("none")

\* the tool's observation (or its error text) is appended to the scratchpad and
\* `while (iterations < maxIterations)` is tested again
ContinueLoop ==
    IF iterations < maxIterations
    THEN /\ iterations' = iterations + 1
         /\ NextCall("none")
    ELSE Finish("partial", Value("partial"))

\* AgentReply, except that a final answer is followed by the structured strategy
AgentReplyContinuing(reply) ==
    /\ rpc = "Agentic" /\ call = "pending"
    /\ CASE reply = "final" -> Begin(AgentFallback, Outcome("ok"))
         [] reply = "empty" -> Begin(AgentFallback, Outcome("empty"))
         [] reply \in {"tool", "toolFailed"} -> ContinueLoop
         [] reply = "error" -> Finish("error", Value("agentError"))
    /\ UNCHANGED <<build, path>>

\* agent.invoke returns or throws; reply is what came back
AgentReply(reply) ==
    /\ rpc = "Agentic" /\ call = "pending"
    /\ CASE reply = "final" -> Finish("ok", Value("research"))
         [] reply = "empty" -> Begin(AgentFallback, Outcome("empty"))
         [] reply \in {"tool", "toolFailed"} -> ContinueLoop
         [] reply = "error" -> Finish("error", Value("agentError"))
    /\ UNCHANGED <<build, path>>

\* the llm's timeout of 120000 ms ends a call that never returns: the outer
\* catch of performAgentResearch returns the error text
AgentTimeout ==
    /\ rpc = "Agentic" /\ call = "hung"
    /\ Finish("timeout", Value("agentError"))
    /\ UNCHANGED <<build, path>>

\* one of the four chat.invoke calls of performLangChainResearch returns or throws
StructuredReply(reply, parseable) ==
    /\ rpc = "StructuredSchema" /\ call = "pending"
    /\ CASE reply = "error" -> Begin(StructuredFallback, Outcome("error"))
         [] reply = "ok" /\ step = "1" -> NextCall("2") /\ UNCHANGED iterations
         [] reply = "ok" /\ step = "2" -> NextCall("3") /\ UNCHANGED iterations
         [] reply = "ok" /\ step = "3" -> NextCall("4") /\ UNCHANGED iterations
         [] reply = "ok" /\ step = "4" ->
              IF parseable THEN Finish("ok", Value("structured"))
              ELSE Finish("unparseable", Value("parseFailed"))
    /\ UNCHANGED <<build, path>>

\* the chat model's timeout of 60000 ms
StructuredTimeout ==
    /\ rpc = "StructuredSchema" /\ call = "hung"
    /\ Begin(StructuredFallback, Outcome("timeout"))
    /\ UNCHANGED <<build, path>>

\* the one chat.invoke of performSimpleLangChainResearch returns or throws
SimpleReply(reply) ==
    /\ rpc = "SimpleText" /\ call = "pending"
    /\ CASE reply = "ok" -> Finish("ok", Value("research"))
         [] reply = "error" -> Begin(SimpleFallback, Outcome("error"))
    /\ UNCHANGED <<build, path>>

\* the model is built without a timeout option; whether the client library
\* ends the call by a default of its own is not decided by this code
SimpleDefaultTimeout ==
    /\ rpc = "SimpleText" /\ call = "hung"
    /\ Begin(SimpleFallback, Outcome("timeout"))
    /\ UNCHANGED <<build, path>>

\* axios.post of performDirectApiResearch returns or throws; the older
\* function has no catch
DirectReply(reply) ==
    /\ rpc = "DirectApi" /\ call = "pending"
    /\ CASE reply = "ok" -> Finish("ok", Value("research"))
         [] reply = "error" ->
              Finish("error", IF build = "current" THEN Value("directError")
                              ELSE Thrown("directFailed"))
    /\ UNCHANGED <<build, path>>

\* one chat.invoke of the server's performLangChainResearch returns or throws:
\* steps 1 to 3 rethrow, steps 4a and 4b fall back to the text report of step 4
ServerLangChainEnds(reply, parseable) ==
    CASE reply = "error" /\ step \in {"1", "2", "3", "4"} ->
              Begin(ServerFallback, Outcome("error"))
      [] reply = "error" /\ step \in {"4a", "4b"} -> NextCall("4") /\ UNCHANGED iterations
      [] reply = "ok" /\ step = "1" -> NextCall("2") /\ UNCHANGED iterations
      [] reply = "ok" /\ step = "2" -> NextCall("3") /\ UNCHANGED iterations
      [] reply = "ok" /\ step = "3" -> NextCall("4a") /\ UNCHANGED iterations
      [] reply = "ok" /\ step = "4a" ->
              NextCall(IF parseable THEN "4b" ELSE "4") /\ UNCHANGED iterations
      [] reply = "ok" /\ step \in {"4b", "4"} -> Finish("ok", Value("research"))

ServerLangChainReply(reply, parseable) ==
    /\ rpc = "ServerLangChain" /\ call = "pending"
    /\ ServerLangChainEnds(reply, parseable)
    /\ UNCHANGED <<build, path>>

\* the server's chat model has a timeout of 60000 ms
ServerLangChainTimeout ==
    /\ rpc = "ServerLangChain" /\ call = "hung"
    /\ ServerLangChainEnds("error", FALSE)
    /\ UNCHANGED <<build, path>>

\* fetch of performOpenAIResearch returns, or fails: the route answers 500 and
\* performServerResearch throws
ServerOpenAIReply(reply) ==
    /\ rpc = "ServerOpenAI" /\ call = "pending"
    /\ CASE reply = "ok" -> Finish("ok", Value("research"))
         [] reply = "error" -> Finish("error", Thrown("serverFailed"))
    /\ UNCHANGED <<build, path>>

\* the client's request to /api/research is rejected while the server is still
\* waiting: the catch of performServerResearch throws
ServerRequestRejected ==
    /\ rpc = "ServerOpenAI" /\ call = "hung"
    /\ Finish("timeout", Thrown("serverFailed"))
    /\ UNCHANGED <<build, path>>

------------------------------------------------------------------------------
\* DeepResearchPanel: the component that requests research and shows it

\* what the interval adds to the progress: 20 * Math.random(), in whole numbers
Increments == {10, 19}

VARIABLES
    panel,             \* "open" while the component is mounted, else "closed"
    status,            \* researchMutation's status
    researchProgress,  \* useState(0)
    researchStage,     \* useState("")
    research           \* useState(null): the result on display

panelVars == <<panel, status, researchProgress, researchStage, research>>

PanelStart ==
    /\ panel = "closed"
    /\ status = "idle"
    /\ researchProgress = 0
    /\ researchStage = ""
    /\ research = "none"

\* performResearch has settled and mutationFn has not yet resumed after its await
Resolving == rpc = "done" /\ status = "pending"

\* the stage the interval shows when it finds the progress at prev
StageAt(prev) ==
    CASE prev = 5 -> "initial analysis"
      [] prev = 25 -> "features"
      [] prev = 45 -> "market"
      [] prev = 65 -> "sentiment"
      [] prev = 85 -> "final report"
      [] OTHER -> researchStage

\* researchMutation.mutate(): mutationFn up to its await of performResearch
Mutate(p) ==
    /\ status' = "pending"
    /\ researchProgress' = 5
    /\ researchStage' = "preparing"
    /\ StartResearch(p)

\* the panel is opened for a dApp: the effect on dapp.id calls mutate
MountPanel(p) ==
    /\ panel = "closed"
    /\ panel' = "open"
    /\ research' = "none"
    /\ Mutate(p)

\* the Retry button, rendered while no mutation is pending
RetryResearch(p) ==
    /\ panel = "open"
    /\ status # "pending"
    /\ Mutate(p)
    /\ UNCHANGED <<panel, research>>

\* onClose: the component unmounts and its state is dropped; nothing tells
\* performResearch
ClosePanel ==
    /\ panel = "open"
    /\ ~Resolving
    /\ panel' = "closed"
    /\ researchProgress' = 0
    /\ researchStage' = ""
    /\ research' = "none"
    /\ UNCHANGED <<status, researchVars>>

\* the progress interval fires (every 2000 ms until the progress is 90 or more)
ProgressTick(inc) ==
    /\ panel = "open"
    /\ status = "pending"
    /\ ~Resolving
    /\ researchProgress < 90
    /\ researchProgress' = researchProgress + inc
    /\ researchStage' = StageAt(researchProgress)
    /\ UNCHANGED <<panel, status, research, researchVars>>

\* mutationFn resumes after performResearch, then onSuccess or onError runs;
\* state setters of an unmounted component do nothing
Settle ==
    /\ Resolving
    /\ status' = IF result.kind = "value" THEN "success" ELSE "error"
    /\ IF panel = "open"
       THEN /\ researchProgress' = IF result.kind = "value" THEN 100 ELSE 0
            /\ researchStage' = IF result.kind = "value" THEN "done" ELSE "error"
            /\ research' = IF result.kind = "value" THEN result.text ELSE research
       ELSE UNCHANGED <<researchProgress, researchStage, research>>
    /\ UNCHANGED <<panel, researchVars>>

------------------------------------------------------------------------------
\* The output normalizers: ensureValidResearchOutput and the panel's onSuccess

\* overview of a raw object: missing, "", a non-empty string, or a non-string
\* value such as a number
RawOverviews == {"absent", "empty", "text", "number"}

\* sentiment.positive values a provider may send or write as "NN%"
RawPositives == {-5, 0, 50, 100, 150}

\* a sentiment object, or none
NoSentiment == [present |-> FALSE, positive |-> 0]
Sentiment(n) == [present |-> TRUE, positive |-> n]

RawSentiments == {NoSentiment} \cup {Sentiment(n) : n \in RawPositives}

\* a raw string: whether it has an Overview heading, whether anything follows
\* (or, without heading, whether the string is empty), and the sentiment it
\* words as "NN% positive", if any
RawStrings ==
    [type : {"string"}, headed : BOOLEAN, body : {"empty", "text"},
     percent : RawSentiments]

RawObjects == [type : {"object"}, overview : RawOverviews, sentiment : RawSentiments]

RawNull == [type |-> "null"]

RawInputs == {RawNull} \cup RawStrings \cup RawObjects

VARIABLES
    raw,         \* the value handed to a normalizer
    normalized   \* what the normalizer gave back

normalizerVars == <<raw, normalized>>

NotRun == [kind |-> "none"]
Threw == [kind |-> "thrown"]
Normal(by, overview, sentiment) ==
    [kind |-> "value", by |-> by, overview |-> overview, sentiment |-> sentiment]

\* JavaScript's `x || fallback` keeps x when it is truthy
Truthy(overview) == overview \in {"text", "number"}

\* ensureValidResearchOutput of langchain-research.ts: data.overview || "...",
\* data.sentiment || { positive: 50 }; reading a property of null throws
EnsureValidResearchOutput(data) ==
    IF data.type = "null" THEN Threw
    ELSE IF data.type = "string" THEN Normal("ensureValid", "fallback", Sentiment(50))
    ELSE Normal("ensureValid",
                IF Truthy(data.overview) THEN data.overview ELSE "fallback",
                IF data.sentiment.present THEN data.sentiment ELSE Sentiment(50))

\* ensureValidResearchOutput of deep-research-test.ts: typeof tests
EnsureValidResearchOutputTest(data) ==
    IF data.type = "null" THEN Threw
    ELSE IF data.type = "string" THEN Normal("ensureValidTest", "fallback", Sentiment(0))
    ELSE Normal("ensureValidTest",
                IF data.overview \in {"empty", "text"} THEN data.overview ELSE "fallback",
                IF data.sentiment.present THEN data.sentiment ELSE Sentiment(0))

\* parseInt of the digits before "%": the sign is not part of the match
ParsedPercent(n) == IF n < 0 THEN -n ELSE n

\* onSuccess of the panel: a structured object is copied with defaults, a text
\* is cut into sections, a research field that is null makes trim throw and
\* the catch stores it as the overview
OnSuccess(data) ==
    IF data.type = "null" THEN Normal("onSuccess", "absent", NoSentiment)
    ELSE IF data.type = "object"
    THEN Normal("onSuccess",
                IF Truthy(data.overview) THEN data.overview ELSE "fallback",
                IF data.sentiment.present THEN data.sentiment ELSE Sentiment(50))
    ELSE Normal("onSuccess",
                data.body,
                IF data.percent.present THEN Sentiment(ParsedPercent(data.percent.positive))
                ELSE NoSentiment)

NormalizerStart ==
    /\ raw = RawNull
    /\ normalized = NotRun

ApplyEnsureValid ==
    /\ normalized = NotRun
    /\ normalized' = EnsureValidResearchOutput(raw)
    /\ UNCHANGED raw

ApplyEnsureValidTest ==
    /\ normalized = NotRun
    /\ normalized' = EnsureValidResearchOutputTest(raw)
    /\ UNCHANGED raw

ApplyOnSuccess ==
    /\ normalized = NotRun
    /\ normalized' = OnSuccess(raw)
    /\ UNCHANGED raw

------------------------------------------------------------------------------
\* Storage keys: the API settings of useApiSettings and the favorites of the
\* wallet store, each kept under a key built from the account's address

\* spellings of two addresses as a provider or a URL can give them
Spellings == {"0xab", "0xAB", "0xcd"}
\* no wallet connected: address is undefined
NoAddress == ""
SettingsValues == {"s1", "s2"}
defaultSettings == "default"

\* String.prototype.toLowerCase on the spellings above
ToLowerCase(text) == IF text = "0xAB" THEN "0xab" ELSE text

API_SETTINGS_KEY_PREFIX == "dapp-lucky-api-settings"
GLOBAL_API_SETTINGS_KEY == <<API_SETTINGS_KEY_PREFIX, "global">>
FAVORITES_KEY == "dapp-explorer-favorites"

\* getWalletApiSettingsKey(address?)
getWalletApiSettingsKey(addr) ==
    IF addr # NoAddress THEN <<API_SETTINGS_KEY_PREFIX, ToLowerCase(addr)>>
    ELSE GLOBAL_API_SETTINGS_KEY

\* `${FAVORITES_KEY}-${account}` of saveFavoritesToMetaMask and loadFavoritesFromMetaMask
FavoritesKeyOf(account) == <<FAVORITES_KEY, account>>

SettingsKeys == {getWalletApiSettingsKey(a) : a \in Spellings \cup {NoAddress}}
FavoritesKeys == {FavoritesKeyOf(a) : a \in Spellings}
FavoriteLists == {<<[id |-> d, position |-> 1]>> : d \in DAppIds}

VARIABLES address, settings, settingsItems, favoritesItems, listed

keyVars == <<address, settings, settingsItems, favoritesItems, listed>>

\* nothing stored, no wallet connected, the hook holding its defaults
KeysStart ==
    /\ address = NoAddress
    /\ settings = defaultSettings
    /\ settingsItems = [k \in SettingsKeys |-> ""]
    /\ favoritesItems = [k \in FavoritesKeys |-> NoData]
    /\ listed = NoData

\* useApiSettings.loadSettings for the address given
LoadedSettings(addr) ==
    IF settingsItems[getWalletApiSettingsKey(addr)] # ""
    THEN settingsItems[getWalletApiSettingsKey(addr)]
    ELSE IF addr # NoAddress /\ settingsItems[GLOBAL_API_SETTINGS_KEY] # ""
         THEN settingsItems[GLOBAL_API_SETTINGS_KEY]
         ELSE defaultSettings

\* useAccount gives another address: the effect on [address] runs loadSettings
AccountChanged(addr) ==
    /\ addr # address
    /\ address' = addr
    /\ settings' = LoadedSettings(addr)
    /\ UNCHANGED <<settingsItems, favoritesItems, listed>>

\* useApiSettings.saveSettings
SaveSettings(newSettings) ==
    /\ settingsItems' = [settingsItems EXCEPT ![getWalletApiSettingsKey(address)] = newSettings]
    /\ settings' = newSettings
    /\ UNCHANGED <<address, favoritesItems, listed>>

\* useApiSettings.clearSettings
ClearSettings ==
    /\ settingsItems[getWalletApiSettingsKey(address)] # ""
    /\ settingsItems' = [settingsItems EXCEPT ![getWalletApiSettingsKey(address)] = ""]
    /\ settings' = defaultSettings
    /\ UNCHANGED <<address, favoritesItems, listed>>

\* saveFavoritesToMetaMask when eth_requestAccounts answers with account
SaveFavoritesAs(account, list) ==
    /\ favoritesItems' = [favoritesItems EXCEPT ![FavoritesKeyOf(account)] = Stored(list)]
    /\ UNCHANGED <<address, settings, settingsItems, listed>>

\* loadFavoritesFromMetaMask when eth_requestAccounts answers with account
LoadFavoritesAs(account) ==
    /\ listed' = favoritesItems[FavoritesKeyOf(account)]
    /\ UNCHANGED <<address, settings, settingsItems, favoritesItems>>

------------------------------------------------------------------------------
\* The DeepResearchPanel that is driven by an isOpen prop: performDeepResearch
\* is called by an effect on [isOpen, result, isLoading] and by "Try Again"

\* how many analyze calls one run may start
MaxCalls == 3
\* what onProgress reports while analyze runs
ProgressReports == {40, 80}
NoError == ""
\* who called performDeepResearch: the effect after isOpen changed, the effect
\* after isLoading changed, or the Try Again button
CallSites == {"opened", "settled", "button"}

VARIABLES isOpen, isLoading, progress, analysis, error, analyze, changed, calls

deepVars == <<isOpen, isLoading, progress, analysis, error, analyze, changed, calls>>

\* the panel as first rendered: closed, nothing loaded, no effect to run
DeepStart ==
    /\ isOpen = FALSE
    /\ isLoading = FALSE
    /\ progress = 0
    /\ analysis = "null"
    /\ error = NoError
    /\ analyze = "idle"
    /\ changed = "none"
    /\ calls = <<>>

\* performDeepResearch up to its await of service.analyze
performDeepResearch(site) ==
    /\ Len(calls) < MaxCalls
    /\ isLoading' = TRUE
    /\ error' = NoError
    /\ progress' = 0
    /\ analyze' = "pending"
    /\ calls' = Append(calls, site)

\* the parent opens or closes the panel
SetIsOpen(open) ==
    /\ isOpen # open
    /\ isOpen' = open
    /\ changed' = "isOpen"
    /\ UNCHANGED <<isLoading, progress, analysis, error, analyze, calls>>

\* the effect, run after a commit that changed one of its dependencies
ResearchEffect ==
    /\ changed # "none"
    /\ changed' = "none"
    /\ IF isOpen /\ analysis = "null" /\ ~isLoading
       THEN performDeepResearch(IF changed = "isOpen" THEN "opened" ELSE "settled")
       ELSE UNCHANGED <<isLoading, error, progress, analyze, calls>>
    /\ UNCHANGED <<isOpen, analysis>>

\* the onProgress callback handed to analyze
OnProgress(p) ==
    /\ analyze = "pending"
    /\ changed = "none"
    /\ progress' = p
    /\ UNCHANGED <<isOpen, isLoading, analysis, error, analyze, changed, calls>>

\* analyze resolves: setResult, then the finally block
AnalyzeResolves ==
    /\ analyze = "pending"
    /\ changed = "none"
    /\ analysis' = "report"
    /\ isLoading' = FALSE
    /\ analyze' = "idle"
    /\ changed' = "isLoading"
    /\ UNCHANGED <<isOpen, progress, error, calls>>

\* analyze rejects: the catch block, then the finally block
AnalyzeRejects ==
    /\ analyze = "pending"
    /\ changed = "none"
    /\ error' = "message"
    /\ isLoading' = FALSE
    /\ analyze' = "idle"
    /\ changed' = "isLoading"
    /\ UNCHANGED <<isOpen, progress, analysis, calls>>

\* the Try Again button, rendered while the panel is open with an error
TryAgain ==
    /\ isOpen
    /\ error # NoError
    /\ performDeepResearch("button")
    /\ UNCHANGED <<isOpen, analysis, changed>>

------------------------------------------------------------------------------
\* One caller of the wallet store: a save, then a load, where the provider may
\* answer the write and the read differently

SaveLists ==
    {<<[id |-> "a", position |-> 1]>>,
     <<[id |-> "b", position |-> 1]>>,
     <<[id |-> "a", position |-> 1], [id |-> "b", position |-> 2]>>,
     <<[id |-> "b", position |-> 1], [id |-> "a", position |-> 2]>>}

\* the list of the last save that returned true, the result of the last load
VARIABLES lastSaved, lastLoaded

callerVars == <<lastSaved, lastLoaded>>

CallerStart ==
    /\ lastSaved = NoData
    /\ lastLoaded = NoData

\* saveFavoritesToMetaMask(list): mode says where the write lands
SaveFavoritesToMetaMask(list, mode) ==
    /\ remoteData' = SavedRemote(mode, list)
    /\ localData' = SavedLocal(mode, list)
    /\ lastSaved' = IF SaveReturns(mode) THEN Stored(list) ELSE lastSaved
    /\ UNCHANGED <<catalogue, modes, favorites, pc, pending, acked, lastLoaded>>

\* loadFavoritesFromMetaMask(): mode says which read answers
LoadFavoritesFromMetaMask(mode) ==
    /\ lastLoaded' = Loaded(mode)
    /\ UNCHANGED <<walletVars, lastSaved>>

------------------------------------------------------------------------------
\* The server-backed FavoritesPanel: the ['/api/favorites'] query fills the
\* list, handleDragEnd reorders it and sends the new positions

NoMutation == [status |-> "idle", payload |-> <<>>]

\* three favorites of the default identity, as three POST /api/favorites leave them
ThreeFavorites ==
    {[id |-> 1, userId |-> DefaultUserId, dappId |-> "a", position |-> 1],
     [id |-> 2, userId |-> DefaultUserId, dappId |-> "b", position |-> 2],
     [id |-> 3, userId |-> DefaultUserId, dappId |-> "c", position |-> 3]}

\* the ids of the rows GET /api/favorites answers with, in its order
FavoriteIds(rows) == [i \in DOMAIN rows |-> rows[i].id]

\* arrayMove(favorites, oldIndex, newIndex)
arrayMove(list, oldIndex, newIndex) ==
    InsertAt(RemoveAt(list, oldIndex), newIndex, list[oldIndex])

VARIABLES boardFavorites, query, reorderMutation

boardVars == <<boardFavorites, query, reorderMutation>>

\* the panel's state before the query has given anything
BoardStart ==
    /\ boardFavorites = <<>>
    /\ query = "idle"
    /\ reorderMutation = NoMutation

\* the query's data arrives: the effect on [data] calls setFavorites
QueryData ==
    /\ query = "loading"
    /\ query' = "idle"
    /\ boardFavorites' = FavoriteIds(GetFavorites(DefaultUserId))
    /\ UNCHANGED <<reorderMutation, serverVars>>

\* handleDragEnd: setFavorites(newFavorites), then mutate(updatedPositions)
handleDragEnd(oldIndex, newIndex) ==
    /\ reorderMutation.status = "idle"
    /\ oldIndex \in DOMAIN boardFavorites
    /\ newIndex \in DOMAIN boardFavorites
    /\ oldIndex # newIndex
    /\ boardFavorites' = arrayMove(boardFavorites, oldIndex, newIndex)
    /\ reorderMutation' =
          [status |-> "pending",
           payload |-> ReorderPayload(arrayMove(boardFavorites, oldIndex, newIndex))]
    /\ UNCHANGED <<query, serverVars>>

\* PUT /api/favorites/reorder without a walletAddress reaches the server
ReorderServed ==
    /\ reorderMutation.status = "pending"
    /\ favs' = UpdatedPositions(favs, reorderMutation.payload)
    /\ reorderMutation' = [reorderMutation EXCEPT !.status = "served"]
    /\ UNCHANGED <<boardFavorites, query, users, favoriteIdCounter, reqs>>

\* onSuccess: invalidateQueries refetches ['/api/favorites']
ReorderSucceeds ==
    /\ reorderMutation.status = "served"
    /\ reorderMutation' = NoMutation
    /\ query' = "loading"
    /\ UNCHANGED <<boardFavorites, serverVars>>

\* the request or its answer is lost: onError shows a toast
ReorderFails ==
    /\ reorderMutation.status \in {"pending", "served"}
    /\ reorderMutation' = NoMutation
    /\ UNCHANGED <<boardFavorites, query, serverVars>>

------------------------------------------------------------------------------
\* The specifications

vars == <<walletVars, serverVars, researchVars, panelVars, normalizerVars, keyVars, deepVars, callerVars, boardVars>>

\* the variables each specification leaves alone
notWallet == <<serverVars, researchVars, panelVars, normalizerVars, keyVars, deepVars, callerVars, boardVars>>
notServer == <<walletVars, researchVars, panelVars, normalizerVars, keyVars, deepVars, callerVars, boardVars>>
notPanel == <<walletVars, serverVars, normalizerVars, keyVars, deepVars, callerVars, boardVars>>
notResearch == <<walletVars, serverVars, panelVars, normalizerVars, keyVars, deepVars, callerVars, boardVars>>
notNormalizer == <<walletVars, serverVars, researchVars, panelVars, keyVars, deepVars, callerVars, boardVars>>
notKeys == <<walletVars, serverVars, researchVars, panelVars, normalizerVars, deepVars, callerVars, boardVars>>
notDeep == <<walletVars, serverVars, researchVars, panelVars, normalizerVars, keyVars, callerVars, boardVars>>
notCaller == <<serverVars, researchVars, panelVars, normalizerVars, keyVars, deepVars, boardVars>>
notBoard == <<walletVars, researchVars, panelVars, normalizerVars, keyVars, deepVars, callerVars>>

\* two tabs on a wallet that either answers the data RPC or never does; the
\* server is not involved
WalletInit ==
    /\ WalletStart
    /\ CallerStart
    /\ BoardStart
    /\ catalogue = {"a", "b"}
    /\ modes \in {{"remote", "fail"}, {"local", "fail"}}
    /\ ServerStart
    /\ ResearchStart
    /\ build = "current"
    /\ path = "client"
    /\ PanelStart
    /\ NormalizerStart
    /\ KeysStart
    /\ DeepStart

WalletNext ==
    \E t \in Tabs :
        \/ LoadFavorites(t) /\ UNCHANGED notWallet
        \/ CardAdd(t) /\ UNCHANGED notWallet
        \/ PanelAddLoad(t) /\ UNCHANGED notWallet
        \/ PanelAddSave(t) /\ UNCHANGED notWallet
        \/ MoveItem(t) /\ UNCHANGED notWallet
        \/ RemoveSave(t) /\ UNCHANGED notWallet
        \/ RemoveReload(t) /\ UNCHANGED notWallet

SpecWallet == WalletInit /\ [][WalletNext]_vars

\* the server with two connections; the wallet store is not involved
ServerInit ==
    /\ ServerStart
    /\ WalletStart
    /\ CallerStart
    /\ BoardStart
    /\ catalogue = {"a", "b"}
    /\ modes = {}
    /\ ResearchStart
    /\ build = "current"
    /\ path = "client"
    /\ PanelStart
    /\ NormalizerStart
    /\ KeysStart
    /\ DeepStart

ServerNext ==
    \E r \in Slots :
        \/ \E w \in Wallets \cup {NoWallet}, d \in catalogue :
              PostFavoriteStart(r, w, d) /\ UNCHANGED notServer
        \/ PostFavoriteUser(r) /\ UNCHANGED notServer
        \/ PostFavoriteCheck(r) /\ UNCHANGED notServer
        \/ PostFavoriteCreate(r) /\ UNCHANGED notServer
        \/ \E id \in 1..MaxFavoriteId : DeleteFavoriteById(r, id) /\ UNCHANGED notServer
        \/ \E w \in Wallets, d \in catalogue :
              DeleteWalletFavoriteStart(r, w, d) /\ UNCHANGED notServer
        \/ DeleteWalletFavoriteUser(r) /\ UNCHANGED notServer
        \/ DeleteWalletFavoriteDelete(r) /\ UNCHANGED notServer
        \/ \E w \in Wallets \cup {NoWallet}, ids \in ReorderInputs :
              ReorderStart(r, w, ids) /\ UNCHANGED notServer
        \/ ReorderUser(r) /\ UNCHANGED notServer
        \/ ReorderDenied(r) /\ UNCHANGED notServer
        \/ ReorderUpdate(r) /\ UNCHANGED notServer

SpecServer == ServerInit /\ [][ServerNext]_vars

\* one research request at a time, on either build of the client
ResearchInit ==
    /\ ResearchStart
    /\ build \in Builds
    /\ path = "client"
    /\ WalletStart
    /\ CallerStart
    /\ BoardStart
    /\ catalogue = {}
    /\ modes = {}
    /\ ServerStart
    /\ PanelStart
    /\ NormalizerStart
    /\ KeysStart
    /\ DeepStart

ResearchNext ==
    \/ \E p \in Paths : MountPanel(p) /\ UNCHANGED notPanel
    \/ \E p \in Paths : RetryResearch(p) /\ UNCHANGED notPanel
    \/ ClosePanel /\ UNCHANGED notPanel
    \/ \E inc \in Increments : ProgressTick(inc) /\ UNCHANGED notPanel
    \/ Settle /\ UNCHANGED notPanel
    \/ \E reply \in AgentReplies :
          AgentReply(reply) /\ UNCHANGED notResearch
    \/ AgentTimeout /\ UNCHANGED notResearch
    \/ \E reply \in {"ok", "error"}, parseable \in BOOLEAN :
          StructuredReply(reply, parseable) /\ UNCHANGED notResearch
    \/ StructuredTimeout /\ UNCHANGED notResearch
    \/ \E reply \in {"ok", "error"} :
          SimpleReply(reply) /\ UNCHANGED notResearch
    \/ SimpleDefaultTimeout /\ UNCHANGED notResearch
    \/ \E reply \in {"ok", "error"} :
          DirectReply(reply) /\ UNCHANGED notResearch
    \/ \E reply \in {"ok", "error"}, parseable \in BOOLEAN :
          ServerLangChainReply(reply, parseable) /\ UNCHANGED notResearch
    \/ ServerLangChainTimeout /\ UNCHANGED notResearch
    \/ \E reply \in {"ok", "error"} :
          ServerOpenAIReply(reply) /\ UNCHANGED notResearch
    \/ ServerRequestRejected /\ UNCHANGED notResearch

SpecResearch == ResearchInit /\ [][ResearchNext]_vars

\* a normalizer applied once to any raw input
NormalizerInit ==
    /\ raw \in RawInputs
    /\ normalized = NotRun
    /\ WalletStart
    /\ CallerStart
    /\ BoardStart
    /\ catalogue = {}
    /\ modes = {}
    /\ ServerStart
    /\ ResearchStart
    /\ build = "current"
    /\ path = "client"
    /\ PanelStart
    /\ KeysStart
    /\ DeepStart

NormalizerNext ==
    \/ ApplyEnsureValid /\ UNCHANGED notNormalizer
    \/ ApplyEnsureValidTest /\ UNCHANGED notNormalizer
    \/ ApplyOnSuccess /\ UNCHANGED notNormalizer

SpecNormalizer == NormalizerInit /\ [][NormalizerNext]_vars

\* settings and favorites saved and loaded under the addresses a wallet gives
KeysInit ==
    /\ KeysStart
    /\ WalletStart
    /\ CallerStart
    /\ BoardStart
    /\ catalogue = {}
    /\ modes = {}
    /\ ServerStart
    /\ ResearchStart
    /\ build = "current"
    /\ path = "client"
    /\ PanelStart
    /\ NormalizerStart
    /\ DeepStart

KeysNext ==
    \/ \E addr \in Spellings \cup {NoAddress} : AccountChanged(addr) /\ UNCHANGED notKeys
    \/ \E newSettings \in SettingsValues : SaveSettings(newSettings) /\ UNCHANGED notKeys
    \/ ClearSettings /\ UNCHANGED notKeys
    \/ \E account \in Spellings, list \in FavoriteLists :
           SaveFavoritesAs(account, list) /\ UNCHANGED notKeys
    \/ \E account \in Spellings : LoadFavoritesAs(account) /\ UNCHANGED notKeys

SpecKeys == KeysInit /\ [][KeysNext]_vars

\* one panel, opened and closed by its parent, whose analyze calls can fail
DeepInit ==
    /\ DeepStart
    /\ WalletStart
    /\ CallerStart
    /\ BoardStart
    /\ catalogue = {}
    /\ modes = {}
    /\ ServerStart
    /\ ResearchStart
    /\ build = "current"
    /\ path = "client"
    /\ PanelStart
    /\ NormalizerStart
    /\ KeysStart

DeepNext ==
    \/ \E open \in BOOLEAN : SetIsOpen(open) /\ UNCHANGED notDeep
    \/ ResearchEffect /\ UNCHANGED notDeep
    \/ \E p \in ProgressReports : OnProgress(p) /\ UNCHANGED notDeep
    \/ AnalyzeResolves /\ UNCHANGED notDeep
    \/ AnalyzeRejects /\ UNCHANGED notDeep
    \/ TryAgain /\ UNCHANGED notDeep

SpecDeep == DeepInit /\ [][DeepNext]_vars

\* one caller saving and loading on a wallet whose data requests may each be
\* answered, be rejected (the localStorage fallback is used) or fail with it
CallerInit ==
    /\ WalletStart
    /\ CallerStart
    /\ BoardStart
    /\ catalogue = {}
    /\ modes = Modes
    /\ ServerStart
    /\ ResearchStart
    /\ build = "current"
    /\ path = "client"
    /\ PanelStart
    /\ NormalizerStart
    /\ KeysStart
    /\ DeepStart

CallerNext ==
    \/ \E list \in SaveLists, mode \in modes :
           SaveFavoritesToMetaMask(list, mode) /\ UNCHANGED notCaller
    \/ \E mode \in modes : LoadFavoritesFromMetaMask(mode) /\ UNCHANGED notCaller

SpecCaller == CallerInit /\ [][CallerNext]_vars

\* the panel is mounted on a server that holds three favorites
BoardInit ==
    /\ boardFavorites = <<>>
    /\ query = "loading"
    /\ reorderMutation = NoMutation
    /\ users = <<>>
    /\ favs = ThreeFavorites
    /\ favoriteIdCounter = 4
    /\ reqs = [r \in Slots |-> IdleSlot("none")]
    /\ WalletStart
    /\ CallerStart
    /\ catalogue = {}
    /\ modes = {}
    /\ ResearchStart
    /\ build = "current"
    /\ path = "client"
    /\ PanelStart
    /\ NormalizerStart
    /\ KeysStart
    /\ DeepStart

BoardNext ==
    \/ QueryData /\ UNCHANGED notBoard
    \/ \E oldIndex \in 1..Cardinality(ThreeFavorites), newIndex \in 1..Cardinality(ThreeFavorites) :
           handleDragEnd(oldIndex, newIndex) /\ UNCHANGED notBoard
    \/ ReorderServed /\ UNCHANGED notBoard
    \/ ReorderSucceeds /\ UNCHANGED notBoard
    \/ ReorderFails /\ UNCHANGED notBoard

SpecBoard == BoardInit /\ [][BoardNext]_vars

------------------------------------------------------------------------------
\* Claims about the server's favorites routes

\* the ids a reorder payload names
PayloadIds(list) == {list[i].id : i \in DOMAIN list}

\* the payload names each of the user's rows exactly once and no other row
IsPermutationOf(list, userId) ==
    /\ Len(list) = Cardinality(FavsOf(userId))
    /\ PayloadIds(list) = {f.id : f \in FavsOf(userId)}

\* the step ends request r with an error and leaves every stored row as it was
Rejected(r) ==
    /\ favs' = favs
    /\ reqs'[r].pc = "idle"
    /\ reqs'[r].status \in {"400", "403", "409"}

\* C5: a reorder whose payload is not exactly the caller's current set of
\* favorite ids (an id missing, a foreign id, a duplicate) is answered with an
\* error and changes no stored position.
C5_MismatchedReorderIsRejected ==
    [][\A r \in Slots :
         /\ \A ids \in ReorderInputs :
              (/\ ReorderStart(r, NoWallet, ids)
               /\ ~IsPermutationOf(ReorderPayload(ids), DefaultUserId))
                  => Rejected(r)
         /\ (/\ ReorderUser(r) \/ ReorderDenied(r) \/ ReorderUpdate(r)
             /\ reqs'[r].pc = "idle"
             /\ ~IsPermutationOf(reqs[r].list, reqs[r].userId))
                => Rejected(r)]_vars

\* the row ids of a user's favorites in display order
OrderOf(userId) == [i \in DOMAIN GetFavorites(userId) |-> GetFavorites(userId)[i].id]

\* the user's positions are exactly 1..N
Dense(userId) ==
    \A i \in DOMAIN GetFavorites(userId) : GetFavorites(userId)[i].position = i

\* C6: removing a favorite from a densely numbered list leaves the others in
\* their order, numbered 1..N-1.
C6_RemoveRenumbersDensely ==
    [][\A r \in Slots, f \in favs :
         (DeleteFavoriteById(r, f.id) /\ Dense(f.userId))
            => /\ OrderOf(f.userId)' = SelectSeq(OrderOf(f.userId), LAMBDA id : id # f.id)
               /\ Dense(f.userId)']_vars

------------------------------------------------------------------------------
\* Claims about the research chain

\* the strategies performResearch can go through on the entry path in use
ChainOf ==
    IF path = "server" THEN <<"ServerLangChain", "ServerOpenAI">>
    ELSE IF build = "current"
         THEN <<"Agentic", "StructuredSchema", "SimpleText", "DirectApi">>
         ELSE <<"StructuredSchema", "SimpleText", "DirectApi">>

\* the ways a strategy's provider calls end without a usable answer
Failures == {"error", "timeout", "empty", "unparseable"}

\* the request is over and every strategy of its chain was tried and failed
AllFailed ==
    /\ rpc = "done"
    /\ [i \in DOMAIN attempted |-> attempted[i].strategy] = ChainOf
    /\ \A i \in DOMAIN attempted : attempted[i].outcome \in Failures

\* the texts that tell the user that research failed
DegradedTexts == {"agentError", "parseFailed", "directError"}

\* C7: when every strategy of the chain has failed, performResearch gives its
\* caller a value whose text is the fallback explanation; it does not throw,
\* whichever entry path was taken.
C7_ExhaustedChainReturnsFallback ==
    AllFailed => /\ result.kind = "value"
                 /\ result.text \in DegradedTexts

\* C8: when the provider fails a strategy that is not the last one (an error, a
\* call that never returns, or output that cannot be parsed), the next strategy
\* is begun: the structured one after the agent, the simple one after the
\* structured one, the direct call after the simple one.
C8_FailureAdvancesChain ==
    [][/\ (AgentReply("error") \/ AgentTimeout) => rpc' = "StructuredSchema"
       /\ ((\E parseable \in BOOLEAN : StructuredReply("error", parseable))
             \/ StructuredTimeout
             \/ (step = "4" /\ StructuredReply("ok", FALSE)))
            => rpc' = "SimpleText"
       /\ (SimpleReply("error") \/ SimpleDefaultTimeout) => rpc' = "DirectApi"]_vars

\* the order in which strategies may be begun within one request
StrategyOrder ==
    <<"Agentic", "StructuredSchema", "SimpleText", "DirectApi",
      "ServerLangChain", "ServerOpenAI">>

PlaceOf(strategy) == CHOOSE i \in DOMAIN StrategyOrder : StrategyOrder[i] = strategy

\* C9: within one request the strategies are begun in the order Agentic,
\* StructuredSchema, SimpleText (then the direct call), each at most once, and
\* a strategy that succeeds ends the request at once: none is begun after it.
C9_StrategiesInOrderAtMostOnce ==
    /\ \A i, j \in DOMAIN attempted :
          i < j => PlaceOf(attempted[i].strategy) < PlaceOf(attempted[j].strategy)
    /\ \A i \in DOMAIN attempted :
          attempted[i].outcome = "ok"
             => /\ i = Len(attempted)
                /\ rpc = "done"
                /\ call = "none"
                /\ result.kind = "value"

\* the agent gave nothing, the structured strategy failed, the simple one
\* answered, and no direct call was made
C9_SimpleSucceededAfterTwoFailures ==
    /\ rpc = "done"
    /\ [i \in DOMAIN attempted |-> attempted[i].strategy]
          = <<"Agentic", "StructuredSchema", "SimpleText">>
    /\ attempted[Len(attempted)].outcome = "ok"
    /\ result = Value("research")

\* C10: a provider call that never returns is ended by a timeout, so a request
\* with a hung call can always take a further step.
C10_HungCallIsTimedOut ==
    call = "hung" =>
        ENABLED (\/ AgentTimeout
                 \/ StructuredTimeout
                 \/ SimpleDefaultTimeout
                 \/ ServerLangChainTimeout
                 \/ ServerRequestRejected)

------------------------------------------------------------------------------
\* Claims about the research panel

\* C11: once the panel that asked for research is closed while the request is
\* in flight, no further strategy of that request is begun, and nothing the
\* request does changes the result, progress or stage on display.
C11_ClosedPanelAbandonsRequest ==
    [][(panel = "closed" /\ rpc \notin {"idle", "done"})
          => /\ Len(attempted') <= Len(attempted)
             /\ UNCHANGED <<research, researchProgress, researchStage>>]_vars


\* C12: whatever raw input a normalizer is given, it returns a value whose
\* overview is a non-empty string: the provider's text or the fallback text.
C12_OverviewIsNeverEmpty ==
    normalized # NotRun =>
        /\ normalized.kind = "value"
        /\ normalized.overview \in {"text", "fallback"}

\* C13: sentiment.positive of a normalized result lies in 0..100.
C13_PositiveIsClamped ==
    (normalized.kind = "value" /\ normalized.sentiment.present)
        => normalized.sentiment.positive \in 0..100

------------------------------------------------------------------------------
\* Claims about the wallet store's fallback and keys

\* C14: an add whose list could not be written to the wallet's data store
\* (the remote backend) is not acknowledged to the user as a success.
C14_RemoteWriteFailureIsSurfaced ==
    [][\A t \in Tabs, dapp \in DAppIds, mode \in Modes :
          (CardAddOf(t, dapp, mode) /\ mode # "remote") => acked' = acked]_vars

C16_EmptyNamespaceListsEmpty ==
    \A mode \in modes \ {"fail"} :
        /\ Loaded(mode).present
        /\ Loaded(mode) # Loaded("fail")

\* C17: removing an identifier that matches no favorite leaves every row as it
\* was and is answered as a success, not as an error.
C17_RemoveOfMissingIsNotAnError ==
    [][\A r \in Slots, id \in 1..MaxFavoriteId :
          (DeleteFavoriteById(r, id) /\ ~\E f \in favs : f.id = id)
              => /\ favs' = favs
                 /\ reqs'[r].status \notin {"404", "500"}]_vars

\* C18: the key of an address is its lowercase form (the fixed "global" key
\* when there is no address), so favorites saved under one spelling of an
\* address are what a load under any other spelling of it finds.
C18_SpellingsShareOneNamespace ==
    [][\A a \in Spellings, b \in Spellings, list \in FavoriteLists :
          (SaveFavoritesAs(a, list) /\ ToLowerCase(a) = ToLowerCase(b))
              => favoritesItems'[FavoritesKeyOf(b)] = Stored(list)]_vars

\* C19: a mutation whose snapshot no longer is the persisted collection when
\* it comes to write does not commit what it computed from that snapshot (it
\* re-reads and recomputes, or fails with ConcurrentModification).
C19_StaleSnapshotIsNotCommitted ==
    [][\A t \in Tabs, mode \in Modes :
          (PanelAddSaveOf(t, mode) /\ Persisted' # Persisted)
              => pending[t].snapshot = Persisted]_vars

------------------------------------------------------------------------------
\* Claims about the panel after a failed attempt

\* C20: once an attempt has failed the panel shows the failure with loading
\* stopped, and it starts no further request on its own: every request that
\* follows is started by the user (opening the panel or pressing Try Again).
C20_FailureWaitsForTheUser ==
    [][Len(calls') > Len(calls) => calls'[Len(calls')] \in {"opened", "button"}]_vars

------------------------------------------------------------------------------
\* Claims about order and positions

\* the entries of a list are in ascending order of their position fields
Ascending(list) ==
    \A i \in DOMAIN list, j \in DOMAIN list :
        i < j => list[i].position <= list[j].position

\* C21: what a load returns and what each panel displays is in ascending order
\* of the persisted position values, after any adds, reorders and removes.
C21_ListedInPositionOrder ==
    /\ Ascending(Persisted)
    /\ \A t \in Tabs : Ascending(favorites[t])

\* what follows the collection cur when dapp has been added to it: cur itself,
\* entry for entry, then one entry for dapp placed right after the largest
\* position of cur (at 1 when cur is empty)
AppendsAfterMax(cur, dapp, new) ==
    /\ Len(new) = Len(cur) + 1
    /\ SubSeq(new, 1, Len(cur)) = cur
    /\ new[Len(new)].id = dapp
    /\ \A p \in PositionsOf(cur) : p < new[Len(new)].position
    /\ new[Len(new)].position - 1 \in PositionsOf(cur) \cup (IF cur = <<>> THEN {0} ELSE {})

------------------------------------------------------------------------------
\* Claims about the sub-calls of a strategy

\* C23: when a provider call made inside a multi-call strategy fails (an error
\* or a timeout), the strategy is over: it issues no further call, neither the
\* next one nor a replacement for the failed one, and it yields no result.
C23_FailedSubCallEndsStrategy ==
    [][\A parseable \in BOOLEAN :
          (\/ StructuredReply("error", parseable)
           \/ StructuredTimeout
           \/ ServerLangChainReply("error", parseable)
           \/ ServerLangChainTimeout)
              => /\ rpc' # rpc
                 /\ result' = NoResult]_vars

------------------------------------------------------------------------------
\* Claims about the progress shown

\* C24: the progress percentage the panel holds and shows is within 0..100
\* from the start of a research run until it has completed or failed.
C24_ProgressWithinPercent == researchProgress \in 0..100

------------------------------------------------------------------------------
\* Claims about the server's identities

\* C25: the rows listed for the default identity (GET /api/favorites, user id
\* 1) and the rows listed for a wallet's user (GET /api/wallet/:w/favorites)
\* are never the same rows: no favorite is listed under two identities.
C25_IdentitiesShareNoFavorite ==
    \A w \in Wallets :
        UserByWallet(w) # 0 => FavsOf(UserByWallet(w)) \cap FavsOf(DefaultUserId) = {}

\* C26: a reorder request that carries a wallet address changes no position of
\* a favorite owned by anyone but that wallet's user, also when the wallet has
\* no user record yet (then it owns nothing and nothing may change).
C26_ReorderTouchesOwnRowsOnly ==
    [][\A r \in Slots :
          (ReorderUser(r) \/ ReorderUpdate(r))
              => \A f \in favs :
                    f.userId # UserByWallet(reqs[r].wallet) => f \in favs']_vars

\* C27: the store never holds two favorites of one user for the same dApp, nor
\* two users for one wallet address, however the requests interleave.
C27_NoDuplicateRows ==
    /\ \A f \in favs, g \in favs :
          (f.userId = g.userId /\ f.dappId = g.dappId) => f = g
    /\ \A i \in DOMAIN users, j \in DOMAIN users : users[i] = users[j] => i = j

------------------------------------------------------------------------------
\* Claims about a save followed by a load

\* C28: once a save has returned true, a load that reaches a store (remote
\* read answered, or rejected and served by localStorage) returns the list of
\* the last such save, whichever way the write and the read were answered.
C28_LoadReturnsLastSave ==
    [][\A mode \in {"remote", "local"} :
          (LoadFavoritesFromMetaMask(mode) /\ lastSaved.present)
              => lastLoaded' = lastSaved]_vars

------------------------------------------------------------------------------
\* Claims about the agent loop

\* C29: the agent makes at most 10 iterations: a final answer is returned at
\* once, a tool call (also one whose tool fails or is unknown) leads to the next
\* iteration while fewer than 10 were made, and at 10 the partial analysis is
\* returned instead of another iteration.
C29_AgentLoopIsBounded ==
    [][\A reply \in AgentReplies :
          AgentReply(reply)
              => /\ iterations' <= 10
                 /\ reply = "final" => (rpc' = "done" /\ result' = Value("research"))
                 /\ reply \in {"tool", "toolFailed"} =>
                       IF iterations < 10
                       THEN rpc' = "Agentic" /\ call' \in Issued /\ iterations' = iterations + 1
                       ELSE rpc' = "done" /\ result' = Value("partial")]_vars

\* the agent asked for a tool ten times and the partial analysis was returned
C29_PartialAfterTenIterations ==
    /\ rpc = "done"
    /\ result = Value("partial")
    /\ Len(attempted) = 1
    /\ attempted[1].strategy = "Agentic"

------------------------------------------------------------------------------
\* Claims about the order a favorites panel shows

\* C30: whenever the panel has neither a query nor a reorder in flight, the
\* order it shows is the order persisted for the identity, also after a reorder
\* whose save failed.
C30_ShownOrderIsPersistedOrder ==
    (query = "idle" /\ reorderMutation.status = "idle" /\ boardFavorites # <<>>)
        => boardFavorites = FavoriteIds(GetFavorites(DefaultUserId))

====
